---- MODULE Spec2Model ----
(***************************************************************************)
(* State-machine model of BaseDaemon (src/daemons/base.py): the JSON-RPC   *)
(* request handler, the lazily loaded wallet sessions and the event        *)
(* fan-out to per-wallet queues.                                           *)
(*                                                                         *)
(* Scheduling is asyncio's: a coroutine runs without interruption from one *)
(* await to the next, so every action below is the code between two        *)
(* suspension points.  The suspension points of the code are               *)
(*   - the sleep loop of load_wallet (line 120-121),                       *)
(*   - the await of the daemon-specific process_events hook (line 231),    *)
(*   - the await of an awaitable method result (line 210-211).             *)
(* `await request.json()` (line 148) and `await restore` (line 116) happen *)
(* before the handler has read or written any shared state of the daemon   *)
(* other than the key test of line 99; restore is taken together with the  *)
(* code around it (the electrum command does no I/O wait of its own).      *)
(***************************************************************************)
EXTENDS Integers, Sequences, FiniteSets, TLC

(* ------------------------------ bounds -------------------------------- *)
\* Wallet objects the daemon may construct in one run.
MaxObjs == 2
\* Callbacks the network layer raises in one run.
MaxEvents == 2
\* Longest decoded Authorization text that is tried.
MaxAuthLen == 3

(* --------------------------- value universes -------------------------- *)
None == "None"
NullId == "null"

\* Wallet identifiers a client may name (besides the absent one).
XPUBS == {"x1", "x2"}
\* Concurrently running handle_request coroutines.
Tasks == {"t1", "t2"}
\* Request ids a client may send.
Ids == {NullId, "id7"}

\* BaseDaemon.EVENT_MAPPING: raw network event kind -> public event tag.
\* The table is filled in by the concrete daemon; here one entry renames
\* its kind and one keeps it.
EVENT_MAPPING ==
    [k \in {"blockchain_updated", "new_transaction"} |->
        IF k = "blockchain_updated" THEN "new_block" ELSE "new_transaction"]

\* BaseDaemon.AVAILABLE_EVENTS: the kinds the callback is registered for.
\* Nothing in the code ties it to the keys of EVENT_MAPPING.
AVAILABLE_EVENTS == {"blockchain_updated", "new_transaction", "payment_received"}

\* Tags a client may pass in an events argument (JSON null is None).
TagArgs == {"new_block", "new_transaction", None}

\* self.base_methods (line 56-60).
base_methods == {"get_updates", "subscribe", "unsubscribe"}
\* self.supported_methods (line 61-65): handlers marked with @rpc.  The
\* table is the concrete daemon's; one of its names is also a built-in's.
supported_methods == {"custom_rpc", "subscribe"}
\* Attributes of the electrum Commands object: known_commands and, for
\* each, its requires_wallet flag.  The table is the wallet library's; it
\* shares one name with the built-ins and one with the custom handlers.
known_commands ==
    [m \in {"getinfo", "getbalance", "get_updates", "custom_rpc"} |->
        m = "getbalance"]
\* Method names a client may send (None: the field is absent).
Methods == base_methods \cup supported_methods \cup DOMAIN known_commands
             \cup {"nosuch", None}

\* self.LOGIN / self.PASSWORD (line 41-42), as character sequences.
LOGIN == <<"e">>
PASSWORD == <<"z">>
AuthChars == {"e", "z", ":"}

(* ------------------------------ variables ----------------------------- *)
VARIABLES
    wallets,          \* self.wallets: xpub -> wallet object (its "wallet" entry)
    wallets_config,   \* self.wallets_config: xpub -> its "events" set
    wallets_updates,  \* self.wallets_updates: xpub -> list of event records
    daemon_wallets,   \* self.daemon.wallets: storage path of xpub -> wallet object
    disk,             \* xpubs whose wallet file exists
    owner,            \* owner[o]: the xpub wallet object o was constructed for
    upToDate,         \* waiting wallet objects whose is_up_to_date() is true
    tasks,            \* per coroutine: where handle_request is suspended
    callbacks,        \* _process_events coroutines awaiting the hook
    nextEvent,        \* number of callbacks raised so far
    failedAt,         \* history: nextEvent when a hook first failed, 0 before
    polled,           \* history: xpub -> the get_updates calls since its queue last grew
    log               \* the handler that just returned: <<>> or <<record>>

vars == <<wallets, wallets_config, wallets_updates, daemon_wallets, disk, owner,
          upToDate, tasks, callbacks, nextEvent, failedAt, polled, log>>

sessions == <<wallets, wallets_config, wallets_updates, daemon_wallets>>

(* ------------------------- decode_auth (128-134) ---------------------- *)
\* Every text over AuthChars of length at most n.
RECURSIVE TextsUpTo(_)
TextsUpTo(n) ==
    IF n = 0 THEN {<<>>}
    ELSE LET shorter == TextsUpTo(n - 1)
         IN  shorter \cup {Append(s, c) : s \in shorter, c \in AuthChars}

\* An Authorization header: absent, not base64, or base64 of a text.
NoHeader == [present |-> FALSE, b64ok |-> FALSE, text |-> <<>>]
AuthHeaders ==
    {NoHeader, [present |-> TRUE, b64ok |-> FALSE, text |-> <<>>]}
      \cup {[present |-> TRUE, b64ok |-> TRUE, text |-> s] : s \in TextsUpTo(MaxAuthLen)}

\* str.split(":"): the pieces between the colons, empty pieces included.
RECURSIVE Split(_)
Split(s) ==
    IF s = <<>> THEN << <<>> >>
    ELSE LET rest == Split(Tail(s))
         IN  IF Head(s) = ":" THEN << <<>> >> \o rest
             ELSE << <<Head(s)>> \o Head(rest) >> \o Tail(rest)

\* decode_auth(authstr): (None, None) for no header; b64decode raises on
\* text that is not base64; the tuple unpacking of line 133 raises unless
\* split(":") gives exactly two pieces.
decode_auth(authstr) ==
    IF ~authstr.present
    THEN [raised |-> FALSE, none |-> TRUE, user |-> <<>>, password |-> <<>>]
    ELSE IF ~authstr.b64ok
    THEN [raised |-> TRUE, none |-> FALSE, user |-> <<>>, password |-> <<>>]
    ELSE LET parts == Split(authstr.text)
         IN  IF Len(parts) # 2
             THEN [raised |-> TRUE, none |-> FALSE, user |-> <<>>, password |-> <<>>]
             ELSE [raised |-> FALSE, none |-> FALSE,
                   user |-> parts[1], password |-> parts[2]]

\* The test of line 139, negated: user == LOGIN and password == PASSWORD.
Authorized(d) ==
    ~d.raised /\ ~d.none /\ d.user = LOGIN /\ d.password = PASSWORD

(* ------------------------------ responses ----------------------------- *)
NoResult == [kind |-> "none", items |-> <<>>]
NullResult == [kind |-> "null", items |-> <<>>]
ValueResult == [kind |-> "value", items |-> <<>>]
ListResult(items) == [kind |-> "list", items |-> items]

\* web.json_response of a JSON-RPC error object (HTTP 200).
ErrorResponse(code, message, id) ==
    [status |-> 200, code |-> code, message |-> message, id |-> id,
     result |-> NoResult]
\* web.json_response of line 223-225.
SuccessResponse(result, id) ==
    [status |-> 200, code |-> 0, message |-> "", id |-> id, result |-> result]
\* An exception that leaves handle_request: aiohttp answers 500.
Unhandled(exc) ==
    [status |-> 500, code |-> 0, message |-> exc, id |-> NullId,
     result |-> NoResult]

(* ------------------------------ requests ------------------------------ *)
Unread == "unread"
UnreadParams == [kind |-> Unread, has |-> FALSE, events |-> {}]
\* params: a list or a mapping, with or without an events argument, or a
\* JSON value that is neither (a string, a number).
Params(kind, has, events) == [kind |-> kind, has |-> has, events |-> events]
NoArgs == {Params(k, FALSE, {}) : k \in {"list", "dict"}}
OtherParams == Params("other", FALSE, {})
\* The params tried with each method: every events set for the two methods
\* that take one, one superfluous argument for the others.
ParamsArgs(method) ==
    NoArgs \cup {OtherParams}
      \cup (IF method \in {"subscribe", "unsubscribe"}
            THEN {Params("list", TRUE, e) : e \in SUBSET TagArgs}
                   \cup {Params("dict", TRUE, {"new_block"})}
            ELSE IF method = "get_updates"
            THEN {Params("list", TRUE, {"new_block"})}
            ELSE {})

GoodHeaders == {h \in AuthHeaders : Authorized(decode_auth(h))}

\* A request, as far as handle_request reads it before it answers: the
\* credentials; then the content type; then the body; of an object body,
\* its four fields.  A text/plain request comes with a body that is a JSON
\* object or is no JSON at all.
Request(h, ctype, body, method, id, xpub, params) ==
    [auth |-> h, ctype |-> ctype, body |-> body, method |-> method,
     id |-> id, xpub |-> xpub, params |-> params]
Requests ==
    {Request(h, Unread, Unread, Unread, Unread, Unread, UnreadParams) :
        h \in AuthHeaders \ GoodHeaders}
    \cup {Request(h, "text/plain", b, Unread, Unread, Unread, UnreadParams) :
        h \in GoodHeaders, b \in {"unparseable", "object"}}
    \cup {Request(h, "application/json", b, Unread, Unread, Unread, UnreadParams) :
        h \in GoodHeaders, b \in {"unparseable", "array"}}
    \cup UNION {{Request(h, "application/json", "object", m, i, x, p) :
                    h \in GoodHeaders, i \in Ids, x \in XPUBS \cup {None},
                    p \in ParamsArgs(m)} : m \in Methods}

\* The requests of reqs that name wallet xpub and reach line 180 after a wait.
RequestsFor(reqs, xpub) ==
    {r \in reqs : r.body = "object" /\ r.method # None /\ r.xpub = xpub}

\* Well-formed, authenticated calls of the built-in methods on the wallets
\* of XPUBS: the requests that drive the session and event engine.
EngineRequests ==
    {r \in Requests :
        /\ r.body = "object" /\ r.method \in base_methods
        /\ r.xpub \in XPUBS /\ r.id = "id7" /\ r.params.kind = "list"
        /\ r.params.has => Cardinality(r.params.events) = 1 /\ None \notin r.params.events
        /\ r.params.has = (r.method = "subscribe")}
\* Built-in calls on one wallet that subscribe to any single tag a client
\* can send, JSON null included.
TagRequests ==
    {r \in Requests :
        /\ r.body = "object" /\ r.method \in base_methods
        /\ r.xpub = "x1" /\ r.id = "id7" /\ r.params.kind = "list"
        /\ r.params.has => Cardinality(r.params.events) = 1
        /\ r.params.has = (r.method = "subscribe")}
\* One synchronous and one awaited method, without arguments: the requests
\* whose progress is followed.  Each of the two clients calls its own
\* wallet.
LiveRequests(t) ==
    {r \in Requests :
        /\ r.body = "object" /\ r.method \in {"unsubscribe", "custom_rpc"}
        /\ r.xpub = (IF t = "t1" THEN "x1" ELSE "x2") /\ r.id = "id7"
        /\ r.params = Params("list", FALSE, {})}
\* The event kind whose callbacks are followed.
LiveEvents == {"new_transaction"}
\* Every request shape, on one wallet and on none.
DispatchRequests ==
    {r \in Requests : r.xpub \in {Unread, None, "x1"}}

(* ------------------------ built-in methods (242-255) ------------------ *)
\* Mutant of get_updates: line 244 left out, the queue is returned but kept.
get_updates_keeps_queue(wallet, upd) ==
    [updates |-> upd[wallet], upd |-> upd]

\* Mutant of get_updates: the queue is popped from the map instead of reset.
get_updates_pops_queue(wallet, upd) ==
    [updates |-> upd[wallet], upd |-> [k \in DOMAIN upd \ {wallet} |-> upd[k]]]

\* get_updates(wallet): the queue, and the queues with that one emptied.
get_updates(wallet, upd) ==
    [updates |-> upd[wallet], upd |-> [upd EXCEPT ![wallet] = <<>>]]

\* Mutant of subscribe: the set is assigned instead of updated.
subscribe_replaces(events, wallet, cfg) ==
    [cfg EXCEPT ![wallet] = events]

\* subscribe(events, wallet): set.update(events).
subscribe(events, wallet, cfg) ==
    [cfg EXCEPT ![wallet] = @ \cup events]

\* unsubscribe(events, wallet); given is FALSE for events=None, and then
\* events is EVENT_MAPPING.keys() (line 251-252).
unsubscribe(given, events, wallet, cfg) ==
    LET removed == IF given THEN events ELSE DOMAIN EVENT_MAPPING
    IN  [cfg EXCEPT ![wallet] = {i \in @ : i \notin removed}]

\* exec_method(*params) / exec_method(**params) of a built-in method with
\* wallet=xpub bound (line 199-209): raised is the exception's name or "".
InvokeBase(method, xpub, params, cfg, upd) ==
    LET raise(exc) == [raised |-> exc, result |-> NoResult, cfg |-> cfg, upd |-> upd]
    IN  IF params.kind \notin {"list", "dict"}
        THEN raise("UnboundLocalError")   \* result is never assigned (206-210)
        ELSE IF method = "get_updates"
        THEN IF params.has THEN raise("TypeError")
             ELSE IF xpub \notin DOMAIN upd THEN raise("KeyError")
             ELSE LET r == get_updates(xpub, upd)
                  IN  [raised |-> "", result |-> ListResult(r.updates),
                       cfg |-> cfg, upd |-> r.upd]
        ELSE IF method = "subscribe"
        THEN IF ~params.has THEN raise("TypeError")
             ELSE IF xpub \notin DOMAIN cfg THEN raise("KeyError")
             ELSE [raised |-> "", result |-> NullResult,
                   cfg |-> subscribe(params.events, xpub, cfg), upd |-> upd]
        ELSE IF xpub \notin DOMAIN cfg THEN raise("KeyError")
             ELSE [raised |-> "", result |-> NullResult,
                   cfg |-> unsubscribe(params.has, params.events, xpub, cfg),
                   upd |-> upd]

(* ------------------- handle_request after load_wallet ----------------- *)
\* Mutant of LoadErrorResponse: the answer of line 191-197 is given.
LoadErrorAsNotFound(id) ==
    ErrorResponse(-32601, "Procedure not found.", id)

\* The answer of line 173-179.
LoadErrorResponse(id) ==
    ErrorResponse(-32601, "Error loading wallet", id)

\* Mutant of LoadErrorAnswered: a failed load is answered for every method.
LoadErrorAlways(method, loaded) == ~loaded

\* The test of line 171-172: load_wallet raised and the method is neither
\* a custom nor a built-in one.
LoadErrorAnswered(method, loaded) ==
    ~loaded /\ method \notin supported_methods /\ method \notin base_methods

\* Mutant of Tier: the custom handlers are looked up before the built-ins.
TierCustomFirst(method) ==
    IF method \in supported_methods THEN "custom"
    ELSE IF method \in base_methods THEN "base"
    ELSE IF method \in DOMAIN known_commands THEN "library"
    ELSE "none"

\* Line 180-197: the table exec_method is taken from; "none" is the
\* AttributeError of getattr(cmd, method).
Tier(method) ==
    IF method \in base_methods THEN "base"
    ELSE IF method \in supported_methods THEN "custom"
    ELSE IF method \in DOMAIN known_commands THEN "library"
    ELSE "none"

\* Line 171-225.  loaded is FALSE when load_wallet raised.  The outcome is
\* a response, or the await of an awaitable result (custom and library
\* methods are coroutines); tier is the table the handler came from, ""
\* when line 180 is not reached.
Dispatch(method, id, xpub, params, loaded, cfg, upd) ==
    LET tier == Tier(method)
        done(resp, inv, tr) ==
            [pc |-> "done", resp |-> resp, invoked |-> inv, tier |-> tr,
             cfg |-> cfg, upd |-> upd]
        unbound == done(ErrorResponse(-32601, "UnboundLocalError", id), FALSE, tier)
        await == [pc |-> "awaiting", resp |-> Unhandled(""), invoked |-> TRUE,
                  tier |-> tier, cfg |-> cfg, upd |-> upd]
    IN  IF LoadErrorAnswered(method, loaded)
        THEN done(LoadErrorResponse(id), FALSE, "")
        ELSE IF tier = "base"
        THEN LET r == InvokeBase(method, xpub, params, cfg, upd)
             IN  [pc |-> "done",
                  resp |-> IF r.raised # ""
                           THEN ErrorResponse(-32601, r.raised, id)
                           ELSE SuccessResponse(r.result, id),
                  invoked |-> r.raised # "UnboundLocalError",
                  tier |-> tier,
                  cfg |-> r.cfg, upd |-> r.upd]
        ELSE IF tier = "none"
        THEN done(ErrorResponse(-32601, "Procedure not found.", id), FALSE, tier)
        ELSE IF params.kind \notin {"list", "dict"} THEN unbound ELSE await

(* --------------------------- load_wallet (98-126) --------------------- *)
\* What load_wallet(xpub) can do before its first suspension:
\*   "registered"  line 99-101, the session exists;
\*   "sessionless" line 109-110, empty xpub;
\*   "raised"      restore, WalletStorage, Wallet or start_network raises;
\*   "ready"       the wallet is constructed and already up to date;
\*   "wait"        the wallet is constructed and the loop sleeps.
LoadOutcomes(xpub) ==
    IF xpub \in DOMAIN wallets THEN {"registered"}
    ELSE IF xpub = None THEN {"sessionless"}
    ELSE {"raised"} \cup (IF Len(owner) < MaxObjs THEN {"ready", "wait"} ELSE {})

\* Line 122-125: the four assignments that register wallet object o.
Registered(m, xpub, value) == (xpub :> value) @@ m

\* A handle_request coroutine: where it is suspended and the locals it
\* still uses.  While load_wallet sleeps these are xpub and the wallet
\* object; method, id and params were read at line 157-160 but are first
\* used at line 172, so the model draws them there.  While a result is
\* awaited they are method, id, the table exec_method came from, and
\* whether `wallet` was bound by line 170.
Task(pc, xpub, obj, method, id, tier, loaded) ==
    [pc |-> pc, xpub |-> xpub, obj |-> obj, method |-> method, id |-> id,
     tier |-> tier, loaded |-> loaded]
IdleTask == Task("idle", None, 0, Unread, Unread, "", TRUE)

\* What is recorded of a handle_request that returned: the request, the
\* branch load_wallet took, whether and from which table a method was
\* called, and the response.
RequestLog(req, load, invoked, tier, resp) ==
    <<[kind |-> "request", req |-> req, load |-> load,
       invoked |-> invoked, tier |-> tier, resp |-> resp]>>

(* -------------------------------- Init -------------------------------- *)
\* The state after __init__ (line 78-80) and on_startup: no session, no
\* coroutine; the wallet file of x2 is on disk from an earlier run, that of
\* x1 is not.
Init ==
    /\ wallets = <<>>
    /\ wallets_config = <<>>
    /\ wallets_updates = <<>>
    /\ daemon_wallets = <<>>
    /\ disk = {"x2"}
    /\ owner = <<>>
    /\ upToDate = {}
    /\ tasks = [t \in Tasks |-> IdleTask]
    /\ callbacks = {}
    /\ nextEvent = 0
    /\ failedAt = 0
    /\ polled = <<>>
    /\ log = <<>>

(* --------------------------- handle_request --------------------------- *)
\* polled[x] tells how the get_updates calls on x follow each other:
\*   "no"      the queue was created or appended to after the last call;
\*   "first"   the last call returned events, and nothing happened since;
\*   "second"  the last call came directly after a "first" call;
\*   "idle"    any other call, with nothing appended since.
\* polled after a dispatch: a successful get_updates marks its wallet.
PolledAfter(base, out, xpub) ==
    [k \in DOMAIN base |->
        IF out.pc = "done" /\ out.resp.result.kind = "list" /\ k = xpub
        THEN IF base[k] = "first" THEN "second"
             ELSE IF base[k] = "no" /\ out.resp.result.items # <<>> THEN "first"
             ELSE "idle"
        ELSE base[k]]

\* handle_request returns resp without touching any state (the early
\* returns of line 140, 150 and 162, and the exceptions before line 169).
Answer(req, resp) ==
    /\ log' = RequestLog(req, "none", FALSE, "", resp)
    /\ UNCHANGED <<sessions, disk, owner, upToDate, tasks, callbacks, nextEvent, failedAt, polled>>

\* Mutant of Registers: the session is entered before the steps that can
\* raise (line 122-125 moved above line 117).
RegistersBeforeFailure(load) == load \in {"ready", "raised"}

\* load_wallet reaches line 122-125 without suspending.
Registers(load) == load = "ready"

\* Line 169-225 with load_wallet taking the branch `load`.
LoadAndDispatch(t, req, load) ==
    LET o == Len(owner) + 1
        x == req.xpub
        made == load \in {"ready", "wait"}
        reg == Registers(load)
        cfg1 == IF reg THEN Registered(wallets_config, x, {}) ELSE wallets_config
        upd1 == IF reg THEN Registered(wallets_updates, x, <<>>) ELSE wallets_updates
        pol1 == IF reg THEN Registered(polled, x, "no") ELSE polled
        out == Dispatch(req.method, req.id, x, req.params, load # "raised", cfg1, upd1)
    IN  /\ owner' = IF made THEN Append(owner, x) ELSE owner
        /\ disk' = IF made THEN disk \cup {x} ELSE disk
        /\ UNCHANGED <<upToDate, callbacks, nextEvent, failedAt>>
        /\ IF load = "wait"
           THEN /\ tasks' = [tasks EXCEPT ![t] = Task("syncing", x, o, Unread, Unread, "", TRUE)]
                /\ log' = <<>>
                /\ UNCHANGED <<sessions, polled>>
           ELSE /\ wallets' = IF reg THEN Registered(wallets, x, o) ELSE wallets
                /\ daemon_wallets' =
                       IF reg THEN Registered(daemon_wallets, x, o) ELSE daemon_wallets
                /\ wallets_config' = out.cfg
                /\ wallets_updates' = out.upd
                /\ polled' = PolledAfter(pol1, out, x)
                /\ tasks' = IF out.pc = "awaiting"
                            THEN [tasks EXCEPT ![t] =
                                     Task("awaiting", None, 0, req.method, req.id,
                                          out.tier, load # "raised")]
                            ELSE tasks
                /\ log' = IF out.pc = "awaiting" THEN <<>>
                          ELSE RequestLog(req, load, out.invoked, out.tier, out.resp)

\* Mutant of IsJson: the test of line 147 left out.
AnyContentType(ctype) == TRUE

\* The test of line 147.
IsJson(ctype) == ctype = "application/json"

\* handle_request from its start to its first suspension (line 136-225).
HandleRequest(t, reqs) ==
    /\ log = <<>>
    /\ tasks[t].pc = "idle"
    /\ \E req \in reqs :
         LET d == decode_auth(req.auth)
         IN  IF d.raised
             THEN Answer(req, Unhandled("ValueError"))
             ELSE IF ~Authorized(d)
             THEN Answer(req, ErrorResponse(-32600, "Unauthorized", NullId))
             ELSE IF ~IsJson(req.ctype)
             THEN Answer(req, ErrorResponse(-32600, "Invalid JSON-RPC.", NullId))
             ELSE IF req.body = "unparseable"
             THEN Answer(req, Unhandled("JSONDecodeError"))
             ELSE IF req.body # "object"
             THEN Answer(req, Unhandled("AttributeError"))
             ELSE IF req.method = None
             THEN Answer(req, ErrorResponse(-32601, "Procedure not found.", req.id))
             ELSE \E load \in LoadOutcomes(req.xpub) : LoadAndDispatch(t, req, load)

\* Mutant of LoopExits: is_up_to_date() is read once, before the loop.
LoopNeverRechecks(o) == FALSE

\* The test of line 120 when the sleep of line 121 is over.
LoopExits(o) == o \in upToDate

\* The sleep loop of line 120-121 wakes and finds the wallet up to date:
\* line 122-126, then line 180-225.
SyncPoll(t, reqs) ==
    /\ log = <<>>
    /\ tasks[t].pc = "syncing"
    /\ LoopExits(tasks[t].obj)
    /\ \E req \in RequestsFor(reqs, tasks[t].xpub) :
       LET o == tasks[t].obj
           x == req.xpub
           out == Dispatch(req.method, req.id, x, req.params, TRUE,
                           Registered(wallets_config, x, {}),
                           Registered(wallets_updates, x, <<>>))
       IN  /\ wallets' = Registered(wallets, x, o)
           /\ daemon_wallets' = Registered(daemon_wallets, x, o)
           /\ wallets_config' = out.cfg
           /\ wallets_updates' = out.upd
           /\ polled' = PolledAfter(Registered(polled, x, "no"), out, x)
           /\ upToDate' = upToDate \ {o}
           /\ tasks' = [tasks EXCEPT ![t] =
                          IF out.pc = "awaiting"
                          THEN Task("awaiting", None, 0, req.method, req.id,
                                    out.tier, TRUE)
                          ELSE IdleTask]
           /\ log' = IF out.pc = "awaiting" THEN <<>>
                     ELSE RequestLog(req, "waited", out.invoked, out.tier, out.resp)
           /\ UNCHANGED <<disk, owner, callbacks, nextEvent, failedAt>>

\* wallet.is_up_to_date() of a wallet some load_wallet waits for changes
\* (the network thread of the wallet library).
WalletSync(o) ==
    /\ log = <<>>
    /\ \E t \in Tasks : tasks[t].pc = "syncing" /\ tasks[t].obj = o
    /\ upToDate' = IF o \in upToDate THEN upToDate \ {o} ELSE upToDate \cup {o}
    /\ UNCHANGED <<sessions, disk, owner, tasks, callbacks, nextEvent, failedAt, polled, log>>

\* `result = await result` (line 210-211) resumes: the custom method or
\* library command returns a value or raises; line 212-225.
CommandReturns(t) ==
    /\ log = <<>>
    /\ tasks[t].pc = "awaiting"
    /\ \E ok \in BOOLEAN :
         log' = RequestLog(
                    Request(CHOOSE h \in GoodHeaders : TRUE, "application/json",
                            "object", tasks[t].method, tasks[t].id,
                            Unread, UnreadParams),
                    IF tasks[t].loaded THEN "returned" ELSE "raised",
                    TRUE, tasks[t].tier,
                    IF ok THEN SuccessResponse(ValueResult, tasks[t].id)
                    ELSE ErrorResponse(-32601, "Exception", tasks[t].id))
    /\ tasks' = [tasks EXCEPT ![t] = IdleTask]
    /\ UNCHANGED <<sessions, disk, owner, upToDate, callbacks, nextEvent, failedAt, polled>>

(* ------------------------ _process_events (227-240) ------------------- *)
\* self.EVENT_MAPPING.get(event).
mapped_event(event) ==
    IF event \in DOMAIN EVENT_MAPPING THEN EVENT_MAPPING[event] ELSE None

\* Mutant of the loop: the test of line 239 left out.
deliver_ignores_origin(mapped, origin, data, w, cfg, upd) ==
    [i \in DOMAIN cfg |->
        IF mapped \in cfg[i] THEN Append(upd[i], data) ELSE upd[i]]

\* Mutant of the loop: line 239 without its `not wallet` half.
deliver_needs_origin(mapped, origin, data, w, cfg, upd) ==
    [i \in DOMAIN cfg |->
        IF mapped \in cfg[i] /\ origin = w[i]
        THEN Append(upd[i], data) ELSE upd[i]]

\* The loop of line 237-240: origin 0 is `wallet` being None.
process_events_deliver(mapped, origin, data, w, cfg, upd) ==
    [i \in DOMAIN cfg |->
        IF mapped \in cfg[i] /\ (origin = 0 \/ origin = w[i])
        THEN Append(upd[i], data) ELSE upd[i]]

\* Mutant of HookYields: the test of line 234-235 left out.
HookYieldsUnlessRaised(outcome) == outcome # "raised"

\* Line 230-235: the loop is reached when the hook neither raised nor
\* returned None as its payload.
HookYields(outcome) == outcome = "data"

\* The network layer raises a callback: line 228-231 up to the await of
\* the hook.
ProcessEventsStart(event) ==
    /\ log = <<>>
    /\ nextEvent < MaxEvents
    /\ nextEvent' = nextEvent + 1
    /\ callbacks' = callbacks \cup {[n |-> nextEvent + 1, event |-> event]}
    /\ UNCHANGED <<sessions, disk, owner, upToDate, tasks, failedAt, polled, log>>

\* The hook returns or raises: line 232-240.  Its outcome is the daemon's:
\* an exception, no payload, or a payload with an origin wallet or none.
\* The record appended is the payload with its tag; n, the rank of the
\* callback among those raised, stands for the payload's content.
ProcessEventsResume(cb) ==
    /\ log = <<>>
    /\ cb \in callbacks
    /\ callbacks' = callbacks \ {cb}
    /\ \E outcome \in {"raised", "nodata", "data"}, origin \in 0 .. Len(owner) :
         LET mapped == mapped_event(cb.event)
             data == [event |-> mapped, n |-> cb.n]
             upd == IF HookYields(outcome)
                    THEN process_events_deliver(mapped, origin, data, wallets,
                                                wallets_config, wallets_updates)
                    ELSE wallets_updates
         IN  /\ outcome # "data" => origin = 0
             /\ wallets_updates' = upd
             /\ failedAt' = IF outcome # "data" /\ failedAt = 0
                             THEN nextEvent ELSE failedAt
             /\ polled' = [k \in DOMAIN polled |->
                             IF upd[k] # wallets_updates[k] THEN "no" ELSE polled[k]]
             /\ log' = <<[kind |-> "event", n |-> cb.n, event |-> cb.event,
                          mapped |-> mapped, outcome |-> outcome, origin |-> origin]>>
    /\ UNCHANGED <<wallets, wallets_config, daemon_wallets, disk, owner, upToDate,
                   tasks, nextEvent>>

\* The answer has left the handler; the next step starts from a clean log.
Observe ==
    /\ log # <<>>
    /\ log' = <<>>
    /\ UNCHANGED <<sessions, disk, owner, upToDate, tasks, callbacks, nextEvent, failedAt, polled>>

\* The session and event engine: built-in calls on two wallets, the
\* wallet-sync loop and the event callbacks.
Next ==
    \/ \E t \in Tasks : HandleRequest(t, EngineRequests)
    \/ \E t \in Tasks : SyncPoll(t, EngineRequests)
    \/ \E o \in 1 .. MaxObjs : WalletSync(o)
    \/ \E e \in AVAILABLE_EVENTS : ProcessEventsStart(e)
    \/ \E cb \in callbacks : ProcessEventsResume(cb)
    \/ Observe

Spec == Init /\ [][Next]_vars

\* The engine with one request at a time.
NextSeq ==
    \/ HandleRequest("t1", EngineRequests)
    \/ SyncPoll("t1", EngineRequests)
    \/ \E o \in 1 .. MaxObjs : WalletSync(o)
    \/ \E e \in AVAILABLE_EVENTS : ProcessEventsStart(e)
    \/ \E cb \in callbacks : ProcessEventsResume(cb)
    \/ Observe

SpecSeq == Init /\ [][NextSeq]_vars

\* The request dispatcher: every request shape, no event callbacks.
NextRPC ==
    \/ \E t \in Tasks : HandleRequest(t, DispatchRequests)
    \/ \E t \in Tasks : SyncPoll(t, DispatchRequests)
    \/ \E o \in 1 .. MaxObjs : WalletSync(o)
    \/ \E t \in Tasks : CommandReturns(t)
    \/ Observe

SpecRPC == Init /\ [][NextRPC]_vars

\* One wallet, one request at a time, every tag: the event callbacks
\* against every subscription a client can make.
NextTags ==
    \/ HandleRequest("t1", TagRequests)
    \/ SyncPoll("t1", TagRequests)
    \/ \E o \in 1 .. MaxObjs : WalletSync(o)
    \/ \E e \in AVAILABLE_EVENTS : ProcessEventsStart(e)
    \/ \E cb \in callbacks : ProcessEventsResume(cb)
    \/ Observe

SpecTags == Init /\ [][NextTags]_vars

\* The callbacks the network layer can have raised.
Callbacks == {[n |-> n, event |-> e] : n \in 1 .. MaxEvents, e \in LiveEvents}

\* Two concurrent requests, the wallet-sync loop, awaited methods and event
\* callbacks, under the scheduling of the asyncio event loop.
NextLive ==
    \/ \E t \in Tasks : HandleRequest(t, LiveRequests(t))
    \/ \E t \in Tasks : SyncPoll(t, LiveRequests(t))
    \/ \E o \in 1 .. MaxObjs : WalletSync(o)
    \/ \E t \in Tasks : CommandReturns(t)
    \/ \E e \in LiveEvents : ProcessEventsStart(e)
    \/ \E cb \in callbacks : ProcessEventsResume(cb)
    \/ Observe

\* The event loop runs its ready callbacks first in, first out: a coroutine
\* that is ready again and again (its sleep of line 121 is over, its awaited
\* hook or method has resolved) is resumed.  Requests arrive and wallets
\* synchronize as the environment pleases.
Fairness ==
    /\ WF_vars(Observe)
    /\ \A t \in Tasks : SF_vars(SyncPoll(t, LiveRequests(t)))
    /\ \A t \in Tasks : SF_vars(CommandReturns(t))
    /\ \A cb \in Callbacks : SF_vars(ProcessEventsResume(cb))

SpecLive == Init /\ [][NextLive]_vars /\ Fairness

(* ======================================================================= *)
(*                                 Claims                                  *)
(* ======================================================================= *)
\* The public tags _process_events matches against: EVENT_MAPPING's values.
PublicTags == {EVENT_MAPPING[k] : k \in DOMAIN EVENT_MAPPING}

\* The step ends a handle_request / a _process_events that appends.
AnswersRequest == log' # <<>> /\ log'[1].kind = "request"
DeliversEvent == log' # <<>> /\ log'[1].kind = "event" /\ log'[1].outcome = "data"
DeliveredRecord == [event |-> log'[1].mapped, n |-> log'[1].n]
\* The state is the one a handle_request / a delivering callback left.
AnsweredRequest == log # <<>> /\ log[1].kind = "request"
DeliveredEvent == log # <<>> /\ log[1].kind = "event" /\ log[1].outcome = "data"

\* The header carries exactly the configured login and password.
CredentialsMatch(h) ==
    h.present /\ h.b64ok /\ h.text = LOGIN \o <<":">> \o PASSWORD

(* C1: for every wallet identifier at most one wallet object is ever
   constructed, however the load_wallet calls for it interleave: a second
   caller reuses the first caller's session instead of building its own. *)
C1_OneWalletObjectPerXpub ==
    \A x \in XPUBS : Cardinality({o \in 1 .. Len(owner) : owner[o] = x}) <= 1

(* C2: when a callback delivers an event whose origin wallet is the handle of
   a registered session w1, the queue of every other registered session w2 is
   left as it was, subscribed or not, and the event is appended to w1's
   queue if w1 is subscribed to the event's tag. *)
C2_OriginIsolation ==
    [][DeliversEvent =>
         \A w1 \in DOMAIN wallets, w2 \in DOMAIN wallets :
            (w1 # w2 /\ log'[1].origin = wallets[w1]) =>
               /\ wallets_updates'[w2] = wallets_updates[w2]
               /\ log'[1].mapped \in wallets_config[w1] =>
                    wallets_updates'[w1] = Append(wallets_updates[w1], DeliveredRecord)
      ]_vars

\* An event of w1 reached w1 and did not reach w2, subscribed to the same tag.
C2_Witness ==
    /\ DeliveredEvent
    /\ \E w1 \in DOMAIN wallets, w2 \in DOMAIN wallets :
         /\ w1 # w2
         /\ log[1].origin = wallets[w1]
         /\ log[1].mapped \in wallets_config[w1] \cap wallets_config[w2]
         /\ wallets_updates[w1] # <<>>
         /\ wallets_updates[w1][Len(wallets_updates[w1])].n = log[1].n
         /\ \A i \in 1 .. Len(wallets_updates[w2]) : wallets_updates[w2][i].n # log[1].n

(* C3: when a callback yields a payload, the event is appended to the queue
   of a registered session exactly if the session's subscription set holds
   the event's tag and the event has no origin wallet or its origin is the
   session's wallet handle; every other queue is unchanged. *)
C3_DeliveredIffSubscribedAndOwn ==
    [][DeliversEvent =>
         /\ DOMAIN wallets_updates' = DOMAIN wallets_updates
         /\ \A s \in DOMAIN wallets :
              IF /\ log'[1].mapped \in wallets_config[s]
                 /\ (log'[1].origin = 0 \/ log'[1].origin = wallets[s])
              THEN wallets_updates'[s] = Append(wallets_updates[s], DeliveredRecord)
              ELSE wallets_updates'[s] = wallets_updates[s]
      ]_vars

\* An event without origin reached a subscribed session and not an
\* unsubscribed one.
C3_Witness ==
    /\ DeliveredEvent
    /\ log[1].origin = 0
    /\ \E s \in DOMAIN wallets, u \in DOMAIN wallets :
         /\ log[1].mapped \in wallets_config[s]
         /\ log[1].mapped \notin wallets_config[u]
         /\ wallets_updates[s] # <<>>
         /\ wallets_updates[s][Len(wallets_updates[s])].n = log[1].n
         /\ \A i \in 1 .. Len(wallets_updates[u]) : wallets_updates[u][i].n # log[1].n

(* C4: in every session's queue the events stand in the order in which the
   network layer raised their callbacks, whatever the interleaving of the
   callbacks that await the hook. *)
C4_QueueInRaisedOrder ==
    \A x \in DOMAIN wallets_updates :
       \A i \in 1 .. Len(wallets_updates[x]), j \in 1 .. Len(wallets_updates[x]) :
          i < j => wallets_updates[x][i].n < wallets_updates[x][j].n

(* C5: a get_updates on a registered wallet returns the whole pending queue
   and leaves the queue empty; a call that directly follows another call,
   with no event delivered in between, returns the empty sequence. *)
C5_DrainExactlyOnce ==
    [][(/\ AnswersRequest
        /\ log'[1].req.method = "get_updates"
        /\ log'[1].load = "registered"
        /\ log'[1].resp.result.kind = "list") =>
         LET w == log'[1].req.xpub
         IN  /\ log'[1].resp.result.items = wallets_updates[w]
             /\ wallets_updates'[w] = <<>>
             /\ polled[w] # "no" => log'[1].resp.result.items = <<>>
      ]_vars

\* The second of two calls in a row, the first of which returned events,
\* has returned nothing.
C5_Witness ==
    /\ AnsweredRequest
    /\ log[1].req.method = "get_updates"
    /\ log[1].resp.result.kind = "list"
    /\ log[1].resp.result.items = <<>>
    /\ polled[log[1].req.xpub] = "second"

(* C6: a successful subscribe(w, E) on a registered wallet w makes w's
   subscription set the union of its previous set and E, and changes no
   other wallet's set. *)
C6_SubscribeIsUnion ==
    [][(/\ AnswersRequest
        /\ log'[1].req.method = "subscribe"
        /\ log'[1].load = "registered"
        /\ log'[1].resp.code = 0) =>
         LET w == log'[1].req.xpub
         IN  wallets_config' =
                [wallets_config EXCEPT ![w] = @ \cup log'[1].req.params.events]
      ]_vars

\* subscribe(w, {B, C}) after subscribe(w, {A, B}) has left {A, B, C}.
C6_Witness ==
    /\ AnsweredRequest
    /\ log[1].req.method = "subscribe"
    /\ log[1].load = "registered"
    /\ log[1].resp.code = 0
    /\ log[1].req.params.events = {"new_transaction", None}
    /\ wallets_config[log[1].req.xpub] = {"new_block", "new_transaction", None}

(* C7: after a successful unsubscribe(w) without tags, w's subscription set
   holds none of the public event tags that _process_events matches
   against. *)
C7_UnsubscribeAllClearsPublicTags ==
    (/\ AnsweredRequest
     /\ log[1].req.method = "unsubscribe"
     /\ log[1].req.params.kind \in {"list", "dict"}
     /\ ~log[1].req.params.has
     /\ log[1].resp.code = 0) =>
       wallets_config[log[1].req.xpub] \cap PublicTags = {}

(* C8: a request whose credentials are missing or are not the configured
   login and password is answered -32600 "Unauthorized" with a null id, and
   handling it changes no session, subscription, queue or task. *)
C8_BadCredentialsUnauthorized ==
    [][(AnswersRequest /\ ~CredentialsMatch(log'[1].req.auth)) =>
         /\ log'[1].resp = ErrorResponse(-32600, "Unauthorized", NullId)
         /\ UNCHANGED <<sessions, disk, owner, upToDate, tasks, callbacks, polled>>
      ]_vars

(* C9: every request is answered with HTTP status 200; no request ends in
   an exception that leaves handle_request. *)
C9_AlwaysHttp200 ==
    AnsweredRequest => log[1].resp.status = 200

(* C10: an authenticated JSON request that names a method of no tier and a
   wallet whose loading raises is answered -32601 "Error loading wallet"
   with the request's id. *)
C10_UnknownMethodUnloadableWallet ==
    (/\ AnsweredRequest
     /\ CredentialsMatch(log[1].req.auth)
     /\ log[1].req.ctype = "application/json"
     /\ log[1].req.body = "object"
     /\ log[1].req.method \notin
            base_methods \cup supported_methods \cup DOMAIN known_commands \cup {None}
     /\ log[1].load = "raised") =>
       log[1].resp = ErrorResponse(-32601, "Error loading wallet", log[1].req.id)

\* Such a request, with a non-null id, has been answered.
C10_Witness ==
    /\ AnsweredRequest
    /\ log[1].req.method = "nosuch"
    /\ log[1].load = "raised"
    /\ log[1].req.id = "id7"
    /\ log[1].resp.message = "Error loading wallet"

\* The request passed the credential test and named a built-in or custom
\* method, and its load_wallet raised.
RecognizedAfterLoadFailure ==
    /\ AnsweredRequest
    /\ CredentialsMatch(log[1].req.auth)
    /\ log[1].load = "raised"
    /\ log[1].req.method \in base_methods \cup supported_methods
\* The answer is that of the method called with wallet=xpub: its result or
\* the -32601 error of the exception it raised.
AnsweredByMethod ==
    /\ log[1].resp.message # "Error loading wallet"
    /\ log[1].invoked
    /\ log[1].tier \in {"base", "custom"}
    /\ log[1].resp.status = 200
    /\ log[1].resp.code \in {0, -32601}
    /\ log[1].resp.id = log[1].req.id

(* C11, as stated: when load_wallet raises for an authenticated request
   whose method is a built-in or custom one, the dispatcher does not answer
   "Error loading wallet" but calls the method with the wallet identifier
   bound, and answers with its result or its -32601 invocation error. *)
C11_RecognizedMethodInvoked ==
    RecognizedAfterLoadFailure => AnsweredByMethod

(* C11, amended: the same for requests whose params is an array or a
   mapping; params of any other JSON type leaves `result` unassigned and the
   method is not called. *)
C11_RecognizedMethodInvokedOnArgs ==
    (RecognizedAfterLoadFailure /\ log[1].req.params.kind # "other")
        => AnsweredByMethod

\* A custom method was awaited after a failed load and returned its result.
C11_Witness ==
    /\ RecognizedAfterLoadFailure
    /\ log[1].req.method = "custom_rpc"
    /\ log[1].tier = "custom"
    /\ log[1].resp = SuccessResponse(ValueResult, log[1].req.id)

(* C12: a request naming get_updates, subscribe or unsubscribe is always
   served by the built-in handler, also when the custom or the library table
   holds the same name: the built-in is called synchronously and its result
   is a list or null, never an awaited handler's value.  A name of the custom
   table that is no built-in is served by the custom handler, also when the
   library has a command of that name. *)
C12_TierPrecedence ==
    (AnsweredRequest /\ log[1].req.method \notin {Unread, None}) =>
        LET m == log[1].req.method
        IN  /\ m \in base_methods =>
                 /\ log[1].tier = "base"
                 /\ log[1].load # "returned"
                 /\ log[1].resp.result.kind # "value"
            /\ (m \in supported_methods \ base_methods /\ log[1].tier # "") =>
                 log[1].tier = "custom"

\* subscribe, a name of the built-in and of the custom table, was served by
\* the built-in on a registered wallet.
C12_Witness ==
    /\ AnsweredRequest
    /\ log[1].req.method = "subscribe"
    /\ log[1].req.method \in supported_methods
    /\ log[1].tier = "base"
    /\ log[1].resp = SuccessResponse(NullResult, log[1].req.id)
    /\ log[1].req.params.events # {}
    /\ log[1].req.params.events \subseteq wallets_config[log[1].req.xpub]

(* C13: a callback whose raw event kind has no entry in EVENT_MAPPING is
   appended to no session's queue, whatever the sessions are subscribed to
   and whatever the process_events hook returns. *)
C13_UnmappedKindDropped ==
    [][(/\ log' # <<>>
        /\ log'[1].kind = "event"
        /\ log'[1].event \notin DOMAIN EVENT_MAPPING) =>
          wallets_updates' = wallets_updates
      ]_vars

\* The step ends a _process_events whose hook raised or gave no payload.
DropsEvent ==
    log' # <<>> /\ log'[1].kind = "event" /\ log'[1].outcome \in {"raised", "nodata"}

(* C14: when the process_events hook raises or returns no payload, the
   callback ends without touching any session, subscription set, queue or
   request in progress, and the other pending callbacks stay pending; a
   callback raised after such a failure and yielding a payload is appended
   to the queue of every session subscribed to its tag (and owning its
   origin wallet, if it has one). *)
C14_FailedHookDropsEvent ==
    [][/\ DropsEvent =>
            /\ UNCHANGED <<sessions, disk, owner, upToDate, tasks, nextEvent>>
            /\ callbacks' = callbacks \ {[n |-> log'[1].n, event |-> log'[1].event]}
       /\ (DeliversEvent /\ failedAt # 0 /\ log'[1].n > failedAt) =>
            \A s \in DOMAIN wallets :
               (/\ log'[1].mapped \in wallets_config[s]
                /\ (log'[1].origin = 0 \/ log'[1].origin = wallets[s])) =>
                  wallets_updates'[s] = Append(wallets_updates[s], DeliveredRecord)
      ]_vars

\* After a callback was dropped, a callback raised later has reached the
\* queue of a subscribed session.
C14_Witness ==
    /\ DeliveredEvent
    /\ failedAt # 0
    /\ log[1].n > failedAt
    /\ \E s \in DOMAIN wallets :
         /\ log[1].mapped \in wallets_config[s]
         /\ wallets_updates[s] # <<>>
         /\ wallets_updates[s][Len(wallets_updates[s])].n = log[1].n

(* C15: an authenticated request whose Content-Type is not application/json
   is answered -32600 "Invalid JSON-RPC." with a null id, also when its body
   is a JSON object; no wallet is loaded or constructed, no method is called
   and no session, queue or task changes. *)
C15_NonJsonContentTypeRejected ==
    [][(/\ AnswersRequest
        /\ CredentialsMatch(log'[1].req.auth)
        /\ log'[1].req.ctype \notin {Unread, "application/json"}) =>
          /\ log'[1].resp = ErrorResponse(-32600, "Invalid JSON-RPC.", NullId)
          /\ log'[1].load = "none"
          /\ ~log'[1].invoked
          /\ UNCHANGED <<sessions, disk, owner, upToDate, tasks>>
      ]_vars

\* A text/plain request with a JSON object as its body has been rejected
\* while a wallet was registered.
C15_Witness ==
    /\ AnsweredRequest
    /\ CredentialsMatch(log[1].req.auth)
    /\ log[1].req.ctype = "text/plain"
    /\ log[1].req.body = "object"
    /\ log[1].resp.message = "Invalid JSON-RPC."
    /\ "x1" \in DOMAIN wallets

\* The step registers a session for x: x becomes a key or gets a new wallet.
RegistersSession(x) ==
    /\ x \in DOMAIN wallets'
    /\ x \notin DOMAIN wallets \/ wallets'[x] # wallets[x]

(* C16: a session is registered in the four maps only by a step in which
   its wallet's is_up_to_date() is true (the wallet was waited for and is up
   to date, or was constructed up to date in that step); while the wallet a
   load_wallet call waits for is not up to date, the call stays suspended in
   the loop and its identifier is in none of the maps. *)
C16_RegisteredOnlyWhenUpToDate ==
    [][/\ \A x \in XPUBS :
            RegistersSession(x) =>
              /\ wallets'[x] \in upToDate \/ Len(owner') > Len(owner)
              /\ x \in DOMAIN wallets_config' /\ x \in DOMAIN wallets_updates'
              /\ x \in DOMAIN daemon_wallets' /\ daemon_wallets'[x] = wallets'[x]
       /\ \A t \in Tasks :
            (tasks[t].pc = "syncing" /\ tasks[t].obj \notin upToDate) =>
              /\ tasks'[t] = tasks[t]
              /\ tasks[t].xpub \notin DOMAIN wallets'
      ]_vars

\* The wallet task t waits for, if any, is up to date.
Synced(t) == tasks[t].pc = "syncing" => tasks[t].obj \in upToDate
\* Callback n awaits its hook.
Pending(n) == \E cb \in callbacks : cb.n = n

(* C17: under the event loop's fair scheduling, a request that has been
   taken up is answered, provided the wallet it waits for is from some time
   on always up to date; this needs nothing of the other request, so a
   request blocked for ever in the wallet-sync loop holds up neither a
   request for another wallet nor a callback, and the loop is the only place
   where a request can stay for ever.  Every callback that awaits its hook
   finishes. *)
C17_EventuallyResponded ==
    /\ \A t \in Tasks :
          (<>[]Synced(t)) => ((tasks[t].pc # "idle") ~> (tasks[t].pc = "idle"))
    /\ \A n \in 1 .. MaxEvents : Pending(n) ~> ~Pending(n)

\* While one request is blocked on a wallet that is not up to date, another
\* request has passed the loop for its own wallet and has been answered.
C17_Witness ==
    /\ AnsweredRequest
    /\ log[1].load = "waited"
    /\ \E t \in Tasks :
         /\ tasks[t].pc = "syncing"
         /\ tasks[t].obj \notin upToDate
         /\ tasks[t].xpub # log[1].req.xpub

\* The step is one in which load_wallet raised: the handler answers at once,
\* or goes on to await a custom method.
LoadFails ==
    \/ AnswersRequest /\ log'[1].load = "raised" /\ \E t \in Tasks : tasks[t].pc = "idle"
    \/ \E t \in Tasks :
          tasks[t].pc = "idle" /\ tasks'[t].pc = "awaiting" /\ ~tasks'[t].loaded

(* C18: when loading an unseen wallet raises, the four maps are left as they
   were: no entry is added for the identifier and every other session keeps
   its wallet, subscription set and queue; no wallet object is constructed
   and the call does not go on to wait in the loop of load_wallet. *)
C18_LoadFailureAffectsOnlyTheCall ==
    [][LoadFails =>
         /\ UNCHANGED <<wallets, wallets_config, wallets_updates, daemon_wallets>>
         /\ UNCHANGED <<owner, upToDate>>
         /\ \A t \in Tasks : tasks'[t].pc = "syncing" => tasks'[t] = tasks[t]
      ]_vars

\* The load of x2 raised while x1 was registered with a subscription; x2 is
\* in no map.
C18_Witness ==
    /\ AnsweredRequest
    /\ log[1].load = "raised"
    /\ log[1].req.xpub = "x2"
    /\ "x1" \in DOMAIN wallets
    /\ wallets_config["x1"] # {}
    /\ "x2" \notin DOMAIN wallets \cup DOMAIN wallets_config
                 \cup DOMAIN wallets_updates \cup DOMAIN daemon_wallets

\* The maps kept per session have the same keys, each wallet is also in the
\* daemon's map, and the absent identifier is no key.
SameSessionKeys ==
    /\ DOMAIN wallets_config = DOMAIN wallets
    /\ DOMAIN wallets_updates = DOMAIN wallets
    /\ DOMAIN daemon_wallets = DOMAIN wallets
    /\ \A x \in DOMAIN wallets : daemon_wallets[x] = wallets[x]
    /\ DOMAIN wallets \subseteq XPUBS

(* C19: in every reachable state wallets, wallets_config and wallets_updates
   have the same key set and every registered wallet is in the daemon's
   wallet map; the absent identifier is never a key; no step removes a key. *)
C19_SessionMapsShareKeys ==
    /\ []SameSessionKeys
    /\ [][/\ DOMAIN wallets \subseteq DOMAIN wallets'
          /\ DOMAIN wallets_config \subseteq DOMAIN wallets_config'
          /\ DOMAIN wallets_updates \subseteq DOMAIN wallets_updates'
          /\ DOMAIN daemon_wallets \subseteq DOMAIN daemon_wallets'
         ]_vars

\* With x1 registered, a subscribe without wallet identifier has been
\* called and has failed on the missing key.
C19_Witness ==
    /\ AnsweredRequest
    /\ log[1].req.xpub = None
    /\ log[1].req.method = "subscribe"
    /\ log[1].invoked
    /\ log[1].resp.message = "KeyError"
    /\ DOMAIN wallets = {"x1"}
    /\ DOMAIN wallets_updates = {"x1"}

\* Sequence q is q0 with records appended.
Extends(q, q0) == Len(q) >= Len(q0) /\ SubSeq(q, 1, Len(q0)) = q0

(* C20: no event is lost or duplicated between delivery and polling: a step
   either leaves the records of a session's queue in place, appending at
   most, or is a get_updates on that wallet that returns exactly the records
   it removes; this for every interleaving of callbacks, get_updates calls
   and load_wallet calls, a second load_wallet for the same identifier that
   completes after the first included. *)
C20_NoEventLostOrDuplicated ==
    [][\A w \in DOMAIN wallets_updates :
          \/ /\ w \in DOMAIN wallets_updates'
             /\ Extends(wallets_updates'[w], wallets_updates[w])
          \/ /\ AnswersRequest
             /\ log'[1].req.method = "get_updates"
             /\ log'[1].req.xpub = w
             /\ log'[1].resp.result = ListResult(wallets_updates[w])
             /\ wallets_updates'[w] = <<>>
      ]_vars

(* C21: the subscription set of a registered session changes only in a step
   that answers a subscribe or unsubscribe naming that wallet; get_updates,
   event delivery, requests naming another wallet and every load_wallet
   call, for this or another identifier and under any interleaving, leave
   it as it was. *)
C21_SubscriptionsChangeOnlyByOwnCalls ==
    [][\A w \in DOMAIN wallets_config :
          \/ /\ w \in DOMAIN wallets_config'
             /\ wallets_config'[w] = wallets_config[w]
          \/ /\ AnswersRequest
             /\ log'[1].req.method \in {"subscribe", "unsubscribe"}
             /\ log'[1].req.xpub = w
             /\ log'[1].invoked
      ]_vars

====
